---- MODULE Spec2Model ----
(***************************************************************************)
(* A model of the robots.txt parser of src/src/lib.rs: RuleLine, Entry and *)
(* RobotFileParser (parse, can_fetch, crawl_delay, sitemaps, request_rate).*)
(*                                                                         *)
(* Strings are sequences of one-character strings, so that trimming,       *)
(* splitting, lower-casing, percent-decoding and prefix / substring        *)
(* matching are computed character by character as the code computes them. *)
(* Option<T> is a sequence of length at most one: <<>> is None, <<v>> is   *)
(* Some(v).                                                                *)
(***************************************************************************)
EXTENDS Integers, Sequences, FiniteSets, TLC

(***************************************************************************)
(* Bounds of the model.                                                    *)
(***************************************************************************)
\* the longest text that is parsed, in lines (robots_txt.split('\n'))
MaxLines == 4

(***************************************************************************)
(* str: the operations of the standard library the code calls.             *)
(***************************************************************************)
None == <<>>

Some(v) == <<v>>

MinOf(S) == CHOOSE m \in S : \A k \in S : m <= k

MaxOf(S) == CHOOSE m \in S : \A k \in S : m >= k

\* char::is_whitespace, for the characters of the modelled alphabet
Whitespace == {" ", "\t", "\r"}

UpperChars == <<"A", "B", "C", "D", "E", "F", "G", "H", "I", "J", "K", "L", "M",
                "N", "O", "P", "Q", "R", "S", "T", "U", "V", "W", "X", "Y", "Z">>

LowerChars == <<"a", "b", "c", "d", "e", "f", "g", "h", "i", "j", "k", "l", "m",
                "n", "o", "p", "q", "r", "s", "t", "u", "v", "w", "x", "y", "z">>

UpperSet == {UpperChars[i] : i \in 1..26}

Digits == <<"0", "1", "2", "3", "4", "5", "6", "7", "8", "9">>

DigitSet == {Digits[i] : i \in 1..10}

LowerChar(c) ==
    IF c \in UpperSet
    THEN LowerChars[CHOOSE i \in 1..26 : UpperChars[i] = c]
    ELSE c

\* str::to_lowercase
to_lowercase(s) == [i \in 1..Len(s) |-> LowerChar(s[i])]

\* str::find(char): the 1-based index of the first occurrence, 0 for None
find(s, c) ==
    LET hits == {i \in 1..Len(s) : s[i] = c}
    IN  IF hits = {} THEN 0 ELSE MinOf(hits)

\* str::trim
trim(s) ==
    LET keep == {i \in 1..Len(s) : s[i] \notin Whitespace}
    IN  IF keep = {} THEN <<>> ELSE SubSeq(s, MinOf(keep), MaxOf(keep))

\* str::splitn(2, c), collected
splitn2(s, c) ==
    LET i == find(s, c)
    IN  IF i = 0 THEN <<s>>
        ELSE <<SubSeq(s, 1, i - 1), SubSeq(s, i + 1, Len(s))>>

RECURSIVE split(_, _)
\* str::split(c), collected
split(s, c) ==
    LET i == find(s, c)
    IN  IF i = 0 THEN <<s>>
        ELSE <<SubSeq(s, 1, i - 1)>> \o split(SubSeq(s, i + 1, Len(s)), c)

\* str::starts_with
starts_with(s, p) == Len(p) <= Len(s) /\ SubSeq(s, 1, Len(p)) = p

\* str::contains(&str)
contains(s, p) ==
    \E i \in 0..(Len(s) - Len(p)) : SubSeq(s, i + 1, i + Len(p)) = p

(***************************************************************************)
(* Bytes.  A byte is written as the character it encodes when it is        *)
(* printable ASCII (or tab, CR) and as the marker \xNN otherwise;          *)
(* ByteChar[n + 1] is byte n.                                              *)
(***************************************************************************)
ByteChar ==
   << "\\x00", "\\x01", "\\x02", "\\x03", "\\x04", "\\x05", "\\x06", "\\x07",
      "\\x08", "\t", "\\x0A", "\\x0B", "\\x0C", "\r", "\\x0E", "\\x0F",
      "\\x10", "\\x11", "\\x12", "\\x13", "\\x14", "\\x15", "\\x16", "\\x17",
      "\\x18", "\\x19", "\\x1A", "\\x1B", "\\x1C", "\\x1D", "\\x1E", "\\x1F",
      " ", "!", "\"", "#", "$", "%", "&", "'",
      "(", ")", "*", "+", ",", "-", ".", "/",
      "0", "1", "2", "3", "4", "5", "6", "7",
      "8", "9", ":", ";", "<", "=", ">", "?",
      "@", "A", "B", "C", "D", "E", "F", "G",
      "H", "I", "J", "K", "L", "M", "N", "O",
      "P", "Q", "R", "S", "T", "U", "V", "W",
      "X", "Y", "Z", "[", "\\", "]", "^", "_",
      "\\x60", "a", "b", "c", "d", "e", "f", "g",
      "h", "i", "j", "k", "l", "m", "n", "o",
      "p", "q", "r", "s", "t", "u", "v", "w",
      "x", "y", "z", "{", "|", "}", "~", "\\x7F",
      "\\x80", "\\x81", "\\x82", "\\x83", "\\x84", "\\x85", "\\x86", "\\x87",
      "\\x88", "\\x89", "\\x8A", "\\x8B", "\\x8C", "\\x8D", "\\x8E", "\\x8F",
      "\\x90", "\\x91", "\\x92", "\\x93", "\\x94", "\\x95", "\\x96", "\\x97",
      "\\x98", "\\x99", "\\x9A", "\\x9B", "\\x9C", "\\x9D", "\\x9E", "\\x9F",
      "\\xA0", "\\xA1", "\\xA2", "\\xA3", "\\xA4", "\\xA5", "\\xA6", "\\xA7",
      "\\xA8", "\\xA9", "\\xAA", "\\xAB", "\\xAC", "\\xAD", "\\xAE", "\\xAF",
      "\\xB0", "\\xB1", "\\xB2", "\\xB3", "\\xB4", "\\xB5", "\\xB6", "\\xB7",
      "\\xB8", "\\xB9", "\\xBA", "\\xBB", "\\xBC", "\\xBD", "\\xBE", "\\xBF",
      "\\xC0", "\\xC1", "\\xC2", "\\xC3", "\\xC4", "\\xC5", "\\xC6", "\\xC7",
      "\\xC8", "\\xC9", "\\xCA", "\\xCB", "\\xCC", "\\xCD", "\\xCE", "\\xCF",
      "\\xD0", "\\xD1", "\\xD2", "\\xD3", "\\xD4", "\\xD5", "\\xD6", "\\xD7",
      "\\xD8", "\\xD9", "\\xDA", "\\xDB", "\\xDC", "\\xDD", "\\xDE", "\\xDF",
      "\\xE0", "\\xE1", "\\xE2", "\\xE3", "\\xE4", "\\xE5", "\\xE6", "\\xE7",
      "\\xE8", "\\xE9", "\\xEA", "\\xEB", "\\xEC", "\\xED", "\\xEE", "\\xEF",
      "\\xF0", "\\xF1", "\\xF2", "\\xF3", "\\xF4", "\\xF5", "\\xF6", "\\xF7",
      "\\xF8", "\\xF9", "\\xFA", "\\xFB", "\\xFC", "\\xFD", "\\xFE", "\\xFF" >>

HighBytes == {ByteChar[n + 1] : n \in 128..255}

ByteCode(c) == CHOOSE n \in 128..255 : ByteChar[n + 1] = c

HexVal(c) ==
    CASE c \in DigitSet -> (CHOOSE i \in 1..10 : Digits[i] = c) - 1
      [] c \in {"a", "A"} -> 10
      [] c \in {"b", "B"} -> 11
      [] c \in {"c", "C"} -> 12
      [] c \in {"d", "D"} -> 13
      [] c \in {"e", "E"} -> 14
      [] c \in {"f", "F"} -> 15
      [] OTHER -> -1

RECURSIVE percent_decode(_)
\* url::percent_encoding::percent_decode: %XX with two hex digits is one
\* byte, every other character stands for itself
percent_decode(s) ==
    IF s = <<>> THEN <<>>
    ELSE IF s[1] = "%" /\ Len(s) >= 3 /\ HexVal(s[2]) >= 0 /\ HexVal(s[3]) >= 0
         THEN <<ByteChar[16 * HexVal(s[2]) + HexVal(s[3]) + 1]>>
                  \o percent_decode(SubSeq(s, 4, Len(s)))
         ELSE <<s[1]>> \o percent_decode(Tail(s))

\* the number of continuation bytes the lead byte b announces together with
\* the range its first continuation byte must lie in; <<>> for a byte that
\* cannot start a character
Utf8Lead(b) ==
    CASE b >= 194 /\ b <= 223 -> <<1, 128, 191>>
      [] b = 224              -> <<2, 160, 191>>
      [] b >= 225 /\ b <= 236 -> <<2, 128, 191>>
      [] b = 237              -> <<2, 128, 159>>
      [] b >= 238 /\ b <= 239 -> <<2, 128, 191>>
      [] b = 240              -> <<3, 144, 191>>
      [] b >= 241 /\ b <= 243 -> <<3, 128, 191>>
      [] b = 244              -> <<3, 128, 143>>
      [] OTHER                -> <<>>

RECURSIVE Utf8Valid(_)
Utf8Valid(bs) ==
    IF bs = <<>> THEN TRUE
    ELSE IF bs[1] \notin HighBytes THEN Utf8Valid(Tail(bs))
    ELSE LET lead == Utf8Lead(ByteCode(bs[1]))
         IN  /\ lead # <<>>
             /\ Len(bs) >= 1 + lead[1]
             /\ \A k \in 2..(1 + lead[1]) :
                   /\ bs[k] \in HighBytes
                   /\ ByteCode(bs[k]) >= (IF k = 2 THEN lead[2] ELSE 128)
                   /\ ByteCode(bs[k]) <= (IF k = 2 THEN lead[3] ELSE 191)
             /\ Utf8Valid(SubSeq(bs, 2 + lead[1], Len(bs)))

\* String::from_utf8(percent_decode(s).collect()).unwrap_or("")
decode_or_empty(s) ==
    LET bs == percent_decode(s)
    IN  IF Utf8Valid(bs) THEN bs ELSE <<>>

(***************************************************************************)
(* Value parsers of the standard library and of the url crate.             *)
(***************************************************************************)
AllDigits(s) == \A i \in 1..Len(s) : s[i] \in DigitSet

RECURSIVE DecimalValue(_)
DecimalValue(ds) ==
    IF ds = <<>> THEN 0
    ELSE 10 * DecimalValue(SubSeq(ds, 1, Len(ds) - 1)) + HexVal(ds[Len(ds)])

\* str::parse::<usize>: an optional plus sign and at least one decimal digit (the
\* numerals of the modelled inputs are far below usize::MAX)
parse_usize(s) ==
    LET ds == IF s # <<>> /\ s[1] = "+" THEN Tail(s) ELSE s
    IN  IF ds # <<>> /\ AllDigits(ds)
        THEN [ok |-> TRUE, v |-> DecimalValue(ds)]
        ELSE [ok |-> FALSE, v |-> 0]

\* str::parse::<f64> on decimal numerals: an optional sign, digits, an
\* optional point and digits, with at least one digit in all.  The value is
\* kept as sign, integer part and the digits of the fraction.
parse_f64(s) ==
    LET signed == s # <<>> /\ s[1] \in {"+", "-"}
        body   == IF signed THEN Tail(s) ELSE s
        dot    == find(body, ".")
        ip     == IF dot = 0 THEN body ELSE SubSeq(body, 1, dot - 1)
        fp     == IF dot = 0 THEN <<>> ELSE SubSeq(body, dot + 1, Len(body))
    IN  IF AllDigits(ip) /\ AllDigits(fp) /\ Len(ip) + Len(fp) > 0
        THEN [ok |-> TRUE, neg |-> signed /\ s[1] = "-",
              int |-> DecimalValue(ip), frac |-> fp]
        ELSE [ok |-> FALSE, neg |-> FALSE, int |-> 0, frac |-> <<>>]

\* (delay.fract() * 1e9) as u32, for a fraction given by its digits
FractNanos(fp) ==
    DecimalValue([k \in 1..9 |-> IF k <= Len(fp) THEN fp[k] ELSE "0"])

\* lines 278-280: the float-to-integer casts saturate, so a negative
\* number gives 0 seconds and 0 nanoseconds
duration_of(f) ==
    [secs  |-> IF f.neg THEN 0 ELSE f.int,
     nanos |-> IF f.neg THEN 0 ELSE FractNanos(f.frac)]

SchemeChars ==
    {LowerChars[i] : i \in 1..26} \cup UpperSet \cup DigitSet \cup {"+", "-", "."}

SpecialSchemes ==
    {<<"h", "t", "t", "p">>, <<"h", "t", "t", "p", "s">>, <<"f", "t", "p">>}

SkipSlashes(s) ==
    LET rest == {i \in 1..Len(s) : s[i] \notin {"/", "\\"}}
    IN  IF rest = {} THEN <<>> ELSE SubSeq(s, MinOf(rest), Len(s))

\* Url::parse without a base: the input must start with a scheme, and a
\* special scheme needs a host.  The Url is kept as its serialization: the
\* scheme and the host lower-cased, an empty path of a special scheme as "/".
url_parse(s) ==
    LET t      == trim(s)
        colon  == find(t, ":")
        scheme == to_lowercase(SubSeq(t, 1, colon - 1))
        after  == SubSeq(t, colon + 1, Len(t))
        auth   == SkipSlashes(after)
        slash  == find(auth, "/")
        host   == IF slash = 0 THEN auth ELSE SubSeq(auth, 1, slash - 1)
        path   == IF slash = 0 THEN <<"/">> ELSE SubSeq(auth, slash, Len(auth))
    IN  IF \/ colon <= 1
           \/ t[1] \in DigitSet \cup {"+", "-", "."}
           \/ \E i \in 1..(colon - 1) : t[i] \notin SchemeChars
        THEN [ok |-> FALSE, v |-> <<>>]
        ELSE IF scheme \in SpecialSchemes
             THEN IF host = <<>>
                  THEN [ok |-> FALSE, v |-> <<>>]
                  ELSE [ok |-> TRUE,
                        v  |-> scheme \o <<":", "/", "/">> \o to_lowercase(host) \o path]
             ELSE [ok |-> TRUE, v |-> scheme \o <<":">> \o after]

(***************************************************************************)
(* RuleLine                                                                *)
(***************************************************************************)
\* a variant of RuleLine::new that keeps an empty Disallow as it is
RuleLine_new_raw(path, allowance) == [path |-> path, allowance |-> allowance]

\* RuleLine::new: an empty Disallow value means allow all
RuleLine_new(path, allowance) ==
    [path |-> path,
     allowance |-> IF path = <<>> /\ ~allowance THEN TRUE ELSE allowance]

\* RuleLine::applies_to
RuleLine_applies_to(line, filename) ==
    line.path = <<"*">> \/ starts_with(filename, line.path)

(***************************************************************************)
(* Entry.  blk is a history field, not a field of the struct: the ordinal  *)
(* of the user-agent block of the text the entry was built from (0 for an  *)
(* entry that has no user-agent yet).                                      *)
(***************************************************************************)
Entry_new ==
    [useragents |-> <<>>, rulelines |-> <<>>, crawl_delay |-> None,
     sitemaps |-> <<>>, req_rate |-> None, blk |-> 0]

RECURSIVE AgentLoop(_, _, _)
AgentLoop(useragents, ua, k) ==
    IF k > Len(useragents) THEN FALSE
    ELSE IF useragents[k] = <<"*">> THEN TRUE
    ELSE IF contains(ua, useragents[k]) THEN TRUE
    ELSE AgentLoop(useragents, ua, k + 1)

\* a variant of Entry::applies_to that wants the whole token to match
Entry_applies_to_exact(e, useragent) ==
    LET ua == to_lowercase(split(useragent, "/")[1])
    IN  \E k \in 1..Len(e.useragents) : e.useragents[k] \in {<<"*">>, ua}

\* Entry::applies_to
Entry_applies_to(e, useragent) ==
    LET ua == to_lowercase(split(useragent, "/")[1])
    IN  AgentLoop(e.useragents, ua, 1)

RECURSIVE RuleLoop(_, _, _)
RuleLoop(rulelines, filename, k) ==
    IF k > Len(rulelines) THEN TRUE
    ELSE IF RuleLine_applies_to(rulelines[k], filename)
         THEN rulelines[k].allowance
         ELSE RuleLoop(rulelines, filename, k + 1)

\* a variant of Entry::allowance in which the last applicable rule wins
Entry_allowance_last(e, filename) ==
    LET hits == {k \in 1..Len(e.rulelines) :
                     RuleLine_applies_to(e.rulelines[k], filename)}
    IN  IF hits = {} THEN TRUE ELSE e.rulelines[MaxOf(hits)].allowance

\* Entry::allowance
Entry_allowance(e, filename) == RuleLoop(e.rulelines, filename, 1)

\* Entry::push_useragent; blk names the block on the first user-agent
push_useragent(e, useragent, blkno) ==
    [e EXCEPT !.useragents = Append(@, to_lowercase(useragent)),
              !.blk = IF e.useragents = <<>> THEN blkno ELSE @]

\* Entry::push_ruleline
push_ruleline(e, ruleline) == [e EXCEPT !.rulelines = Append(@, ruleline)]

\* Entry::has_useragent
has_useragent(e, useragent) ==
    \E k \in 1..Len(e.useragents) : e.useragents[k] = useragent

\* Entry::is_empty
is_empty(e) == e.useragents = <<>> /\ e.rulelines = <<>>

\* Entry::set_crawl_delay
set_crawl_delay(e, delay) == [e EXCEPT !.crawl_delay = Some(delay)]

\* Entry::add_sitemap
add_sitemap(e, url) ==
    LET parsed == url_parse(url)
    IN  IF parsed.ok THEN [e EXCEPT !.sitemaps = Append(@, parsed.v)] ELSE e

\* Entry::set_request_rate
set_request_rate(e, req_rate) == [e EXCEPT !.req_rate = Some(req_rate)]

(***************************************************************************)
(* RobotFileParser                                                         *)
(***************************************************************************)
\* a variant of _add_entry in which the last default entry wins
add_entry_last_wins(this, e) ==
    IF has_useragent(e, <<"*">>)
    THEN [this EXCEPT !.default_entry = e]
    ELSE [this EXCEPT !.entries = Append(@, e)]

\* a variant of _add_entry that lists every entry, the default one too
add_entry_also_listed(this, e) ==
    IF has_useragent(e, <<"*">>) /\ is_empty(this.default_entry)
    THEN [this EXCEPT !.default_entry = e, !.entries = Append(@, e)]
    ELSE [this EXCEPT !.entries = Append(@, e)]

\* RobotFileParser::_add_entry: the first default entry wins
add_entry(this, e) ==
    IF has_useragent(e, <<"*">>)
    THEN IF is_empty(this.default_entry)
         THEN [this EXCEPT !.default_entry = e]
         ELSE this
    ELSE [this EXCEPT !.entries = Append(@, e)]

\* parse, lines 208-213 and 223-224: the parser and the loop variables
\* before the first line
parse_start ==
    [this  |-> [entries |-> <<>>, default_entry |-> Entry_new,
                disallow_all |-> FALSE, allow_all |-> FALSE],
     state |-> 0, entry |-> Entry_new, panicked |-> FALSE]

\* a variant of the empty-line arm that commits the entry in state 1 too
on_empty_line_commits(c) ==
    IF c.state \in {1, 2}
    THEN [c EXCEPT !.this = add_entry(c.this, c.entry),
                   !.entry = Entry_new, !.state = 0]
    ELSE c

\* a variant of the empty-line arm that forgets to reset the entry in state 1
on_empty_line_keeps_entry(c) ==
    CASE c.state = 1 -> [c EXCEPT !.state = 0]
      [] c.state = 2 -> [c EXCEPT !.this = add_entry(c.this, c.entry),
                                  !.entry = Entry_new, !.state = 0]
      [] OTHER -> c

\* parse, lines 227-240: the raw line is empty
on_empty_line(c) ==
    CASE c.state = 1 -> [c EXCEPT !.entry = Entry_new, !.state = 0]
      [] c.state = 2 -> [c EXCEPT !.this = add_entry(c.this, c.entry),
                                  !.entry = Entry_new, !.state = 0]
      [] OTHER -> c

\* parse, lines 242-245: remove optional comment and strip line
normalize(ln) ==
    LET h == find(ln, "#")
    IN  trim(IF h = 0 THEN ln ELSE SubSeq(ln, 1, h - 1))

\* a variant of the User-agent arm that never commits: the agent joins the
\* group in progress
on_user_agent_no_commit(c, part1, blkno) ==
    [c EXCEPT !.entry = push_useragent(c.entry, part1, blkno), !.state = 1]

\* parse, lines 255-262
on_user_agent(c, part1, blkno) ==
    LET c1 == IF c.state = 2
              THEN [c EXCEPT !.this = add_entry(c.this, c.entry),
                             !.entry = Entry_new]
              ELSE c
    IN  [c1 EXCEPT !.entry = push_useragent(c1.entry, part1, blkno), !.state = 1]

\* a variant of the Disallow and Allow arms without the test of the state
on_rule_unguarded(c, part1, allowance) ==
    [c EXCEPT !.entry = push_ruleline(c.entry, RuleLine_new(part1, allowance)),
              !.state = 2]

\* parse, lines 263-274
on_rule(c, part1, allowance) ==
    IF c.state # 0
    THEN [c EXCEPT !.entry = push_ruleline(c.entry, RuleLine_new(part1, allowance)),
                   !.state = 2]
    ELSE c

\* a variant of the Crawl-delay arm that stores a zero delay when the value
\* does not parse
on_crawl_delay_zero_on_failure(c, part1) ==
    IF c.state # 0
    THEN LET delay == parse_f64(part1)
         IN  [c EXCEPT !.entry = set_crawl_delay(c.entry, duration_of(delay)),
                       !.state = 2]
    ELSE c

\* parse, lines 275-285
on_crawl_delay(c, part1) ==
    IF c.state # 0
    THEN LET delay == parse_f64(part1)
         IN  [c EXCEPT !.entry = IF delay.ok
                                 THEN set_crawl_delay(c.entry, duration_of(delay))
                                 ELSE c.entry,
                       !.state = 2]
    ELSE c

\* parse, lines 286-291
on_sitemap(c, part1) ==
    IF c.state # 0
    THEN [c EXCEPT !.entry = add_sitemap(c.entry, part1), !.state = 2]
    ELSE c

\* a variant of the guard that checks the first number only
rate_guard_first_only(numbers) ==
    Len(numbers) = 2 /\ numbers[1].ok

\* parse, line 295: the guard of the two unwrap() calls
rate_guard(numbers) ==
    Len(numbers) = 2 /\ numbers[1].ok /\ numbers[2].ok

\* parse, lines 292-304; unwrap() of an Err panics
on_request_rate(c, part1) ==
    IF c.state # 0
    THEN LET parts   == split(part1, "/")
             numbers == [k \in 1..Len(parts) |-> parse_usize(parts[k])]
         IN  IF rate_guard(numbers)
             THEN IF numbers[1].ok /\ numbers[2].ok
                  THEN [c EXCEPT !.entry = set_request_rate(c.entry,
                                      [requests |-> numbers[1].v,
                                       seconds  |-> numbers[2].v]),
                                 !.state = 2]
                  ELSE [c EXCEPT !.panicked = TRUE]
             ELSE [c EXCEPT !.state = 2]
    ELSE c

K_user_agent == <<"u", "s", "e", "r", "-", "a", "g", "e", "n", "t">>

K_disallow == <<"d", "i", "s", "a", "l", "l", "o", "w">>

K_allow == <<"a", "l", "l", "o", "w">>

K_crawl_delay == <<"c", "r", "a", "w", "l", "-", "d", "e", "l", "a", "y">>

K_sitemap == <<"s", "i", "t", "e", "m", "a", "p">>

K_request_rate == <<"r", "e", "q", "u", "e", "s", "t", "-", "r", "a", "t", "e">>

\* parse, lines 254-306: the match on the directive name
on_directive(c, part0, part1, blkno) ==
    CASE part0 = K_user_agent   -> on_user_agent(c, part1, blkno)
      [] part0 = K_disallow     -> on_rule(c, part1, FALSE)
      [] part0 = K_allow        -> on_rule(c, part1, TRUE)
      [] part0 = K_crawl_delay  -> on_crawl_delay(c, part1)
      [] part0 = K_sitemap      -> on_sitemap(c, part1)
      [] part0 = K_request_rate -> on_request_rate(c, part1)
      [] OTHER -> c

\* a variant of the loop body that tests for the empty line after the comment
\* is removed and the line is stripped
parse_line_blank_after_strip(c, ln, blkno) ==
    LET l     == normalize(ln)
        c1    == IF l = <<>> THEN on_empty_line(c) ELSE c
        parts == splitn2(l, ":")
    IN  IF l = <<>> THEN c1
        ELSE IF Len(parts) = 2
             THEN on_directive(c1, to_lowercase(trim(parts[1])),
                               decode_or_empty(trim(parts[2])), blkno)
             ELSE c1

\* parse, lines 226-308: the body of the loop for one line
parse_line(c, ln, blkno) ==
    LET c1    == IF ln = <<>> THEN on_empty_line(c) ELSE c
        l     == normalize(ln)
        parts == splitn2(l, ":")
    IN  IF l = <<>> THEN c1
        ELSE IF Len(parts) = 2
             THEN on_directive(c1, to_lowercase(trim(parts[1])),
                               decode_or_empty(trim(parts[2])), blkno)
             ELSE c1

\* a variant of the end of the input that commits whenever a group is in
\* progress
parse_end_in_progress(c) ==
    IF c.state # 0 THEN [c EXCEPT !.this = add_entry(c.this, c.entry)] ELSE c

\* parse, lines 309-313: the end of the input
parse_end(c) ==
    IF c.state = 2 THEN [c EXCEPT !.this = add_entry(c.this, c.entry)] ELSE c

\* a variant of the normalization that decodes first and trims the result
url_str_decode_first(url) ==
    LET decoded_url == trim(decode_or_empty(url))
    IN  IF decoded_url # <<>> THEN decoded_url ELSE <<"/">>

\* can_fetch, lines 331-335
url_str(url) ==
    LET decoded_url == decode_or_empty(trim(url))
    IN  IF decoded_url # <<>> THEN decoded_url ELSE <<"/">>

RECURSIVE FetchLoop(_, _, _, _)
FetchLoop(entries, useragent, path, k) ==
    IF k > Len(entries) THEN None
    ELSE IF Entry_applies_to(entries[k], useragent)
         THEN Some(Entry_allowance(entries[k], path))
         ELSE FetchLoop(entries, useragent, path, k + 1)

\* a variant of can_fetch that tries the default entry first
can_fetch_default_first(this, useragent, url) ==
    LET found == FetchLoop(this.entries, useragent, url_str(url), 1)
    IN  IF ~is_empty(this.default_entry)
        THEN Entry_allowance(this.default_entry, url_str(url))
        ELSE IF found # None THEN found[1] ELSE TRUE

\* a variant of can_fetch without the default entry
can_fetch_no_default(this, useragent, url) ==
    LET found == FetchLoop(this.entries, useragent, url_str(url), 1)
    IN  IF found # None THEN found[1] ELSE TRUE

\* RobotFileParser::can_fetch
can_fetch(this, useragent, url) ==
    IF this.disallow_all THEN FALSE
    ELSE IF this.allow_all THEN TRUE
    ELSE LET found == FetchLoop(this.entries, useragent, url_str(url), 1)
         IN  IF found # None THEN found[1]
             ELSE IF ~is_empty(this.default_entry)
                  THEN Entry_allowance(this.default_entry, url_str(url))
                  ELSE TRUE

RECURSIVE FirstApplying(_, _, _)
\* the loop of lines 355-359, 367-371 and 379-383: the first entry that
\* applies, as an Option
FirstApplying(entries, useragent, k) ==
    IF k > Len(entries) THEN None
    ELSE IF Entry_applies_to(entries[k], useragent) THEN Some(entries[k])
    ELSE FirstApplying(entries, useragent, k + 1)

\* a variant of crawl_delay that falls back to the default entry
crawl_delay_with_default(this, useragent) ==
    LET found == FirstApplying(this.entries, useragent, 1)
    IN  IF found # None THEN found[1].crawl_delay
        ELSE this.default_entry.crawl_delay

\* RobotFileParser::crawl_delay
crawl_delay(this, useragent) ==
    LET found == FirstApplying(this.entries, useragent, 1)
    IN  IF found # None THEN found[1].crawl_delay ELSE None

\* RobotFileParser::sitemaps
sitemaps(this, useragent) ==
    LET found == FirstApplying(this.entries, useragent, 1)
    IN  IF found # None THEN Some(found[1].sitemaps) ELSE None

\* RobotFileParser::request_rate
request_rate(this, useragent) ==
    LET found == FirstApplying(this.entries, useragent, 1)
    IN  IF found # None THEN found[1].req_rate ELSE None

(***************************************************************************)
(* Inputs.  A text is a sequence of at most MaxLines lines, all drawn from *)
(* the pool of one family of texts; the queries asked of the parsed text   *)
(* are drawn from the agents and urls of the same family.                  *)
(***************************************************************************)
\* ""
L_empty ==
    <<>>

\* "User-agent: *"
L_ua_star ==
    <<"U", "s", "e", "r", "-", "a", "g", "e", "n", "t", ":", " ", "*">>

\* "User-agent: Bot"
L_ua_Bot ==
    <<"U", "s", "e", "r", "-", "a", "g", "e", "n", "t", ":", " ", "B", "o", "t">>

\* "User-agent: zed"
L_ua_zed ==
    <<"U", "s", "e", "r", "-", "a", "g", "e", "n", "t", ":", " ", "z", "e", "d">>

\* "Disallow: /x"
L_dis_x ==
    <<"D", "i", "s", "a", "l", "l", "o", "w", ":", " ", "/", "x">>

\* "Allow: /x/y"
L_allow_xy ==
    <<"A", "l", "l", "o", "w", ":", " ", "/", "x", "/", "y">>

\* "Disallow:"
L_dis_none ==
    <<"D", "i", "s", "a", "l", "l", "o", "w", ":">>

\* "Disallow: *"
L_dis_star ==
    <<"D", "i", "s", "a", "l", "l", "o", "w", ":", " ", "*">>

\* "User-agent: crawler1"
L_ua_crawler1 ==
    <<"U", "s", "e", "r", "-", "a", "g", "e", "n", "t", ":", " ", "c", "r", "a", "w", "l", "e", "r", "1">>

\* "Allow: /not_here/but_here"
L_allow_but_here ==
    <<"A", "l", "l", "o", "w", ":", " ", "/", "n", "o", "t", "_", "h", "e", "r", "e", "/", "b", "u", "t", "_", "h", "e", "r", "e">>

\* "Disallow:/not_here/"
L_dis_not_here ==
    <<"D", "i", "s", "a", "l", "l", "o", "w", ":", "/", "n", "o", "t", "_", "h", "e", "r", "e", "/">>

\* "Crawl-delay: 1.5"
L_delay_ok ==
    <<"C", "r", "a", "w", "l", "-", "d", "e", "l", "a", "y", ":", " ", "1", ".", "5">>

\* "Crawl-delay: soon"
L_delay_bad ==
    <<"C", "r", "a", "w", "l", "-", "d", "e", "l", "a", "y", ":", " ", "s", "o", "o", "n">>

\* "Sitemap: http://a/s"
L_sitemap_ok ==
    <<"S", "i", "t", "e", "m", "a", "p", ":", " ", "h", "t", "t", "p", ":", "/", "/", "a", "/", "s">>

\* "Sitemap: /s"
L_sitemap_bad ==
    <<"S", "i", "t", "e", "m", "a", "p", ":", " ", "/", "s">>

\* "Request-rate: 20/60"
L_rate_ok ==
    <<"R", "e", "q", "u", "e", "s", "t", "-", "r", "a", "t", "e", ":", " ", "2", "0", "/", "6", "0">>

\* "Request-rate: 20/sixty"
L_rate_bad ==
    <<"R", "e", "q", "u", "e", "s", "t", "-", "r", "a", "t", "e", ":", " ", "2", "0", "/", "s", "i", "x", "t", "y">>

\* "  "
L_blank_ws ==
    <<" ", " ">>

\* "# c"
L_comment ==
    <<"#", " ", "c">>

\* "Disallow /x"
L_no_colon ==
    <<"D", "i", "s", "a", "l", "l", "o", "w", " ", "/", "x">>

\* "Host: a"
L_unknown ==
    <<"H", "o", "s", "t", ":", " ", "a">>

\* "user-agent : BOT # all"
L_ua_bot_comment ==
    <<"u", "s", "e", "r", "-", "a", "g", "e", "n", "t", " ", ":", " ", "B", "O", "T", " ", "#", " ", "a", "l", "l">>

\* "ExampleBot/2.0"
A_ExampleBot ==
    <<"E", "x", "a", "m", "p", "l", "e", "B", "o", "t", "/", "2", ".", "0">>

\* "zed/bot"
A_zed ==
    <<"z", "e", "d", "/", "b", "o", "t">>

\* "bot"
A_bot ==
    <<"b", "o", "t">>

\* "crawler1"
A_crawler1 ==
    <<"c", "r", "a", "w", "l", "e", "r", "1">>

\* "/x/y"
U_xy ==
    <<"/", "x", "/", "y">>

\* "/x"
U_x ==
    <<"/", "x">>

\* "/"
U_root ==
    <<"/">>

\* "/z"
U_z ==
    <<"/", "z">>

\* "/not_here/but_here"
U_but_here ==
    <<"/", "n", "o", "t", "_", "h", "e", "r", "e", "/", "b", "u", "t", "_", "h", "e", "r", "e">>

\* "/not_here/no_way"
U_no_way ==
    <<"/", "n", "o", "t", "_", "h", "e", "r", "e", "/", "n", "o", "_", "w", "a", "y">>

\* "/not_here/"
P_not_here ==
    <<"/", "n", "o", "t", "_", "h", "e", "r", "e", "/">>

\* "Crawl-delay: -1.5"
L_delay_neg ==
    <<"C", "r", "a", "w", "l", "-", "d", "e", "l", "a", "y", ":", " ", "-", "1", ".", "5">>

\* "User-agent: Foo/1.0"
L_ua_slash ==
    <<"U", "s", "e", "r", "-", "a", "g", "e", "n", "t", ":", " ", "F", "o", "o", "/", "1", ".", "0">>

\* "User-agent:"
L_ua_none ==
    <<"U", "s", "e", "r", "-", "a", "g", "e", "n", "t", ":">>

\* "Disallow: /"
L_dis_root ==
    <<"D", "i", "s", "a", "l", "l", "o", "w", ":", " ", "/">>

\* "Foo/1.0"
A_Foo_slash ==
    <<"F", "o", "o", "/", "1", ".", "0">>

\* ""
A_none ==
    <<>>

\* ""
U_empty ==
    <<>>

\* "  "
U_ws ==
    <<" ", " ">>

\* "%20"
U_pct20 ==
    <<"%", "2", "0">>

\* "%FF"
U_pctFF ==
    <<"%", "F", "F">>

Families == {"rules", "doc", "delay", "rate", "noise", "edge"}

Pool(f) ==
    CASE f = "rules" -> {L_empty, L_ua_star, L_ua_Bot, L_ua_zed, L_dis_x,
                         L_allow_xy, L_dis_none}
      [] f = "doc"   -> {L_empty, L_ua_crawler1, L_allow_but_here, L_dis_not_here,
                         L_dis_star}
      [] f = "delay" -> {L_empty, L_ua_star, L_ua_Bot, L_delay_ok, L_delay_bad,
                         L_delay_neg, L_dis_x}
      [] f = "rate"  -> {L_empty, L_ua_star, L_ua_Bot, L_sitemap_ok, L_sitemap_bad,
                         L_rate_ok, L_rate_bad}
      [] f = "noise" -> {L_empty, L_blank_ws, L_comment, L_no_colon, L_unknown,
                         L_ua_bot_comment, L_dis_x}
      [] f = "edge"  -> {L_empty, L_ua_star, L_ua_slash, L_ua_none, L_dis_root}

Agents(f) ==
    CASE f = "rules" -> {A_ExampleBot, A_zed}
      [] f = "doc"   -> {A_crawler1}
      [] f = "edge"  -> {A_Foo_slash, A_none}
      [] OTHER       -> {A_bot, A_zed}

Urls(f) ==
    CASE f = "rules" -> {U_xy, U_x, U_z}
      [] f = "doc"   -> {U_but_here, U_no_way}
      [] f = "edge"  -> {U_empty, U_ws, U_pct20, U_pctFF, U_root}
      [] OTHER       -> {U_x, U_root}

(***************************************************************************)
(* State.                                                                  *)
(*   family, len       the text: its family and its number of lines        *)
(*   i                 the number of lines the loop of parse has consumed  *)
(*   pc                "parse" in the loop, "done" once parse has          *)
(*                     returned, "panic" if it panicked                    *)
(*   this, state, entry  the variables of parse of the same names          *)
(*   cur, blocks       history: the user-agent block of the text that is   *)
(*                     open, and the blocks that have ended, each with the *)
(*                     value of entry at its end                           *)
(*   last              the last query and its result                       *)
(*   step              history: the last step of parse, a line of the loop *)
(*                     or the end of the input, with the values of state,  *)
(*                     entry and this before it                            *)
(***************************************************************************)
VARIABLES family, len, i, pc, this, state, entry, cur, blocks, last, step

vars == <<family, len, i, pc, this, state, entry, cur, blocks, last, step>>

DirectiveKinds == {"disallow", "allow", "crawl-delay", "sitemap", "request-rate"}

\* what a line of the text is: "empty", the directive it names, or "other"
LineKind(ln) ==
    LET parts == splitn2(normalize(ln), ":")
        name  == to_lowercase(trim(parts[1]))
    IN  IF ln = <<>> THEN "empty"
        ELSE IF Len(parts) # 2 THEN "other"
        ELSE CASE name = K_user_agent   -> "user-agent"
               [] name = K_disallow     -> "disallow"
               [] name = K_allow        -> "allow"
               [] name = K_crawl_delay  -> "crawl-delay"
               [] name = K_sitemap      -> "sitemap"
               [] name = K_request_rate -> "request-rate"
               [] OTHER -> "other"

NoBlock == [open |-> FALSE, kinds |-> {}]

\* The blocks of the text: a block opens at a User-agent line, takes the
\* User-agent lines that follow it directly and the directive lines after
\* them, and ends at the next empty line, at the next User-agent line that
\* follows a directive line, or at the end of the text.
BlockStep(c, bs, e, ln) ==
    LET kind     == LineKind(ln)
        ended(by) == Append(bs, [entry |-> e, kinds |-> c.kinds, endedBy |-> by])
    IN  CASE kind = "empty" /\ c.open ->
                [cur |-> NoBlock, blocks |-> ended("blank")]
          [] kind = "user-agent" /\ c.open /\ c.kinds # {} ->
                [cur |-> [open |-> TRUE, kinds |-> {}], blocks |-> ended("agent")]
          [] kind = "user-agent" /\ ~(c.open /\ c.kinds # {}) ->
                [cur |-> [open |-> TRUE, kinds |-> {}], blocks |-> bs]
          [] kind \in DirectiveKinds /\ c.open ->
                [cur |-> [c EXCEPT !.kinds = @ \cup {kind}], blocks |-> bs]
          [] OTHER -> [cur |-> c, blocks |-> bs]

NoQuery == [op |-> "none", useragent |-> <<>>, url |-> <<>>, result |-> None]

NoStep ==
    [op |-> "none", ln |-> <<>>, state |-> parse_start.state,
     entry |-> parse_start.entry, this |-> parse_start.this]

Init ==
    /\ family \in Families
    /\ len \in 0..MaxLines
    /\ i = 0
    /\ pc = "parse"
    /\ this = parse_start.this
    /\ state = parse_start.state
    /\ entry = parse_start.entry
    /\ cur = NoBlock
    /\ blocks = <<>>
    /\ last = NoQuery
    /\ step = NoStep

\* one iteration of the loop of parse, lines 226-308
ParseLine(ln) ==
    /\ pc = "parse"
    /\ i < len
    /\ LET g == BlockStep(cur, blocks, entry, ln)
           c == parse_line([this |-> this, state |-> state, entry |-> entry,
                            panicked |-> FALSE], ln, Len(g.blocks) + 1)
       IN  /\ this' = c.this
           /\ state' = c.state
           /\ entry' = c.entry
           /\ pc' = IF c.panicked THEN "panic" ELSE "parse"
           /\ cur' = g.cur
           /\ blocks' = g.blocks
    /\ i' = i + 1
    /\ step' = [op |-> "line", ln |-> ln, state |-> state, entry |-> entry,
                this |-> this]
    /\ UNCHANGED <<family, len, last>>

\* the end of the loop and the return of parse, lines 309-313
ParseEnd ==
    /\ pc = "parse"
    /\ i = len
    /\ LET c == parse_end([this |-> this, state |-> state, entry |-> entry,
                           panicked |-> FALSE])
       IN  this' = c.this
    /\ blocks' = IF cur.open
                 THEN Append(blocks, [entry |-> entry, kinds |-> cur.kinds,
                                      endedBy |-> "eof"])
                 ELSE blocks
    /\ cur' = NoBlock
    /\ pc' = "done"
    /\ step' = [op |-> "end", ln |-> <<>>, state |-> state, entry |-> entry,
                this |-> this]
    /\ UNCHANGED <<family, len, i, state, entry, last>>

\* a variant of the call that moves the entry it consulted to the front
CanFetch_promote(useragent, url) ==
    /\ pc = "done"
    /\ last' = [op |-> "can_fetch", useragent |-> useragent, url |-> url,
                result |-> can_fetch(this, useragent, url)]
    /\ LET hits == {k \in 1..Len(this.entries) :
                       Entry_applies_to(this.entries[k], useragent)}
           m    == MinOf(hits)
       IN  this' = IF hits = {} THEN this
                   ELSE [this EXCEPT !.entries =
                            <<this.entries[m]>> \o SubSeq(this.entries, 1, m - 1)
                               \o SubSeq(this.entries, m + 1, Len(this.entries))]
    /\ UNCHANGED <<family, len, i, pc, state, entry, cur, blocks, step>>

\* a call of can_fetch(&self, useragent, url)
CanFetch(useragent, url) ==
    /\ pc = "done"
    /\ last' = [op |-> "can_fetch", useragent |-> useragent, url |-> url,
                result |-> can_fetch(this, useragent, url)]
    /\ UNCHANGED <<family, len, i, pc, this, state, entry, cur, blocks, step>>

\* a call of crawl_delay(&self, useragent)
CrawlDelay(useragent) ==
    /\ pc = "done"
    /\ last' = [op |-> "crawl_delay", useragent |-> useragent, url |-> <<>>,
                result |-> crawl_delay(this, useragent)]
    /\ UNCHANGED <<family, len, i, pc, this, state, entry, cur, blocks, step>>

\* a call of sitemaps(&self, useragent)
Sitemaps(useragent) ==
    /\ pc = "done"
    /\ last' = [op |-> "sitemaps", useragent |-> useragent, url |-> <<>>,
                result |-> sitemaps(this, useragent)]
    /\ UNCHANGED <<family, len, i, pc, this, state, entry, cur, blocks, step>>

\* a call of request_rate(&self, useragent)
RequestRate(useragent) ==
    /\ pc = "done"
    /\ last' = [op |-> "request_rate", useragent |-> useragent, url |-> <<>>,
                result |-> request_rate(this, useragent)]
    /\ UNCHANGED <<family, len, i, pc, this, state, entry, cur, blocks, step>>

Next ==
    \/ \E ln \in Pool(family) : ParseLine(ln)
    \/ ParseEnd
    \/ \E ua \in Agents(family), url \in Urls(family) : CanFetch(ua, url)
    \/ \E ua \in Agents(family) : CrawlDelay(ua)
    \/ \E ua \in Agents(family) : Sitemaps(ua)
    \/ \E ua \in Agents(family) : RequestRate(ua)

Spec == Init /\ [][Next]_vars

\* the call of parse alone, up to its return
ParseNext ==
    \/ \E ln \in Pool(family) : ParseLine(ln)
    \/ ParseEnd

\* parse is one uninterrupted synchronous call: while it has a step to take,
\* it takes it
ParseSpec == Init /\ [][ParseNext]_vars /\ WF_vars(ParseNext)

(***************************************************************************)
(* Notions the properties are stated with, defined apart from the          *)
(* operators of the parser.                                                *)
(***************************************************************************)
\* p is a literal prefix of s
IsPrefix(p, s) == \E n \in 0..Len(s) : p = [k \in 1..n |-> s[k]]

\* p occurs in s
IsSubstring(p, s) ==
    \E a \in 0..Len(s) : \E n \in 0..(Len(s) - a) : p = [k \in 1..n |-> s[a + k]]

\* the groups of the parser: the explicit ones, the default one and the one
\* in progress
Groups ==
    {this.entries[k] : k \in 1..Len(this.entries)} \cup {this.default_entry, entry}

\* the rules of group g that apply to path, by position
Applicable(g, path) ==
    {k \in 1..Len(g.rulelines) :
        g.rulelines[k].path = <<"*">> \/ IsPrefix(g.rulelines[k].path, path)}

\* the allow flag of the first applicable rule, true without one
FirstMatch(g, path) ==
    IF Applicable(g, path) = {} THEN TRUE
    ELSE g.rulelines[MinOf(Applicable(g, path))].allowance

\* the explicit groups that apply to a user agent, by position
Applying(useragent) ==
    {k \in 1..Len(this.entries) : Entry_applies_to(this.entries[k], useragent)}

Rule(path, allowance) == [path |-> path, allowance |-> allowance]

\* the text is one block with exactly these rules, and the last query asked
\* an agent the block governs about url
OneBlockQuery(rules, url) ==
    /\ pc = "done"
    /\ Len(blocks) = 1
    /\ blocks[1].entry.rulelines = rules
    /\ last.op = "can_fetch"
    /\ last.url = url
    /\ Entry_applies_to(blocks[1].entry, last.useragent)

(***************************************************************************)
(* C1: rule resolution inside a group is first-match-wins.  For every      *)
(* group and every path, allowance(path) is the allow flag of the first    *)
(* rule, in insertion order, whose path is the literal "*" or a literal    *)
(* prefix of the path, and true when no rule applies.  So Disallow: /x     *)
(* then Allow: /x/y makes can_fetch(agent, "/x/y") false, and              *)
(* Allow: /not_here/but_here then Disallow:/not_here/ makes can_fetch true *)
(* for /not_here/but_here and false for /not_here/no_way.                  *)
(***************************************************************************)
C1_FirstMatchWins ==
    /\ \A g \in Groups : \A path \in Urls(family) :
          Entry_allowance(g, path) = FirstMatch(g, path)
    /\ OneBlockQuery(<<Rule(U_x, FALSE), Rule(U_xy, TRUE)>>, U_xy)
          => last.result = FALSE
    /\ OneBlockQuery(<<Rule(U_but_here, TRUE), Rule(P_not_here, FALSE)>>,
                     U_but_here)
          => last.result = TRUE
    /\ OneBlockQuery(<<Rule(U_but_here, TRUE), Rule(P_not_here, FALSE)>>,
                     U_no_way)
          => last.result = FALSE

\* Disallow: /x then Allow: /x/y was parsed and /x/y was refused
C1_Witness ==
    /\ OneBlockQuery(<<Rule(U_x, FALSE), Rule(U_xy, TRUE)>>, U_xy)
    /\ last.result = FALSE

(***************************************************************************)
(* C2: if at least one group of the explicit groups applies to the user    *)
(* agent, can_fetch returns the allowance of the first such group in       *)
(* insertion order, whatever any later applying group and the default      *)
(* group hold.                                                             *)
(***************************************************************************)
C2_FirstGroupWins ==
    (last.op = "can_fetch" /\ Applying(last.useragent) # {})
        => last.result =
              Entry_allowance(this.entries[MinOf(Applying(last.useragent))],
                              url_str(last.url))

\* two explicit groups apply to the agent of the last can_fetch and disagree
\* about its url
C2_Witness ==
    /\ last.op = "can_fetch"
    /\ \E j, k \in Applying(last.useragent) :
          /\ j < k
          /\ Entry_allowance(this.entries[j], url_str(last.url))
                # Entry_allowance(this.entries[k], url_str(last.url))

(***************************************************************************)
(* C3: when no explicit group applies to the user agent, can_fetch returns *)
(* the allowance of the default group for the url if a default group was   *)
(* stored, and true if none was stored.                                    *)
(***************************************************************************)
C3_DefaultFallback ==
    (last.op = "can_fetch" /\ Applying(last.useragent) = {})
        => last.result =
              IF this.default_entry # Entry_new
              THEN Entry_allowance(this.default_entry, url_str(last.url))
              ELSE TRUE

\* no explicit group applies, a default group is stored and it refuses the url
C3_Witness ==
    /\ last.op = "can_fetch"
    /\ Applying(last.useragent) = {}
    /\ this.entries # <<>>
    /\ this.default_entry # Entry_new
    /\ last.result = FALSE

(***************************************************************************)
(* C4: crawl_delay, sitemaps and request_rate never consult the default    *)
(* group.  When no explicit group applies to the user agent all three      *)
(* return None, even when the block of "*" carries the directive; when an  *)
(* explicit group applies they return the field of the first applying      *)
(* group in insertion order.                                               *)
(***************************************************************************)
C4_NoDefaultForMetadata ==
    LET first == this.entries[MinOf(Applying(last.useragent))]
    IN  /\ (last.op \in {"crawl_delay", "sitemaps", "request_rate"}
               /\ Applying(last.useragent) = {})
            => last.result = None
        /\ (last.op = "crawl_delay" /\ Applying(last.useragent) # {})
            => last.result = first.crawl_delay
        /\ (last.op = "sitemaps" /\ Applying(last.useragent) # {})
            => last.result = Some(first.sitemaps)
        /\ (last.op = "request_rate" /\ Applying(last.useragent) # {})
            => last.result = first.req_rate

\* the default group holds a crawl delay, and crawl_delay of an agent that
\* no explicit group applies to returned None
C4_Witness ==
    /\ last.op = "crawl_delay"
    /\ Applying(last.useragent) = {}
    /\ this.default_entry.crawl_delay # None
    /\ last.result = None

\* the blocks of the text that declare User-agent: *, by position
StarDeclared == {k \in 1..Len(blocks) : has_useragent(blocks[k].entry, <<"*">>)}

\* those of them with at least one directive line after the User-agent lines
StarWithDirective == {k \in StarDeclared : blocks[k].kinds # {}}

IsExplicitBlock(b) == b.kinds # {} /\ ~has_useragent(b.entry, <<"*">>)

(***************************************************************************)
(* C5, as claimed: when the text contains several blocks that declare      *)
(* User-agent: *, the default group after parse is the first such block of *)
(* the text and no later block of "*" influences a query.  Stated on what  *)
(* can_fetch answers: it answers as it would with the first block of "*"   *)
(* of the text as the default group.                                       *)
(***************************************************************************)
C5_FirstStarBlockOfText ==
    (pc = "done" /\ Cardinality(StarDeclared) >= 2)
        => \A ua \in Agents(family), url \in Urls(family) :
              can_fetch(this, ua, url)
                 = can_fetch([this EXCEPT !.default_entry =
                                  blocks[MinOf(StarDeclared)].entry], ua, url)

(***************************************************************************)
(* C5, amended: the default group is the first block of "*" of the text    *)
(* that has at least one directive line (Allow, Disallow, Crawl-delay,     *)
(* Sitemap or Request-rate) after its User-agent lines, as it stood at its *)
(* end; a block of "*" without a directive line is dropped and leaves the  *)
(* default slot free.  The later blocks of "*" are neither merged into the *)
(* default nor appended to groups: groups holds the blocks with a          *)
(* directive line that do not declare "*", in the order of the text.       *)
(***************************************************************************)
C5_FirstCommittedStarBlock ==
    LET explicit == SelectSeq(blocks, IsExplicitBlock)
    IN  /\ this.default_entry =
              IF StarWithDirective = {} THEN Entry_new
              ELSE blocks[MinOf(StarWithDirective)].entry
        /\ this.entries = [k \in 1..Len(explicit) |-> explicit[k].entry]

\* two blocks of "*" with directive lines and different rules were parsed
C5_Witness ==
    /\ pc = "done"
    /\ \E j, k \in StarWithDirective :
          /\ j < k
          /\ blocks[j].entry.rulelines # blocks[k].entry.rulelines
          /\ this.default_entry = blocks[j].entry

\* block k of the text is held by the Ruleset, in groups or as the default
InRuleset(k) ==
    \/ this.default_entry.blk = k
    \/ \E j \in 1..Len(this.entries) : this.entries[j].blk = k

AllRules ==
    UNION {{g.rulelines[k] : k \in 1..Len(g.rulelines)} : g \in Groups}

(***************************************************************************)
(* C7: an empty-value Disallow line is normalized to an allow-all rule.    *)
(* Every rule stored in any group with an empty path has allow = true, and *)
(* for a text whose only rule is Disallow: with an empty value can_fetch   *)
(* is true for every agent and every path.                                 *)
(***************************************************************************)
C7_EmptyDisallowAllowsAll ==
    /\ \A r \in AllRules : r.path = <<>> => r.allowance
    /\ (/\ pc = "done"
        /\ last.op = "can_fetch"
        /\ \A k \in 1..Len(blocks) : blocks[k].kinds \subseteq {"disallow"}
        /\ \A r \in AllRules : r.path = <<>>)
          => last.result = TRUE

\* the text has one rule, Disallow: with an empty value, in a committed
\* block, and an agent the block governs asked about a url
C7_Witness ==
    /\ pc = "done"
    /\ last.op = "can_fetch"
    /\ \E k \in 1..Len(blocks) :
          /\ blocks[k].kinds = {"disallow"}
          /\ InRuleset(k)
          /\ Entry_applies_to(blocks[k].entry, last.useragent)
    /\ AllRules = {Rule(<<>>, TRUE)}
    /\ last.result = TRUE

\* the part of a user-agent string before its first '/'
BeforeSlash(s) ==
    IF \E k \in 1..Len(s) : s[k] = "/"
    THEN SubSeq(s, 1, MinOf({k \in 1..Len(s) : s[k] = "/"}) - 1)
    ELSE s

(***************************************************************************)
(* C8: a group applies to a user-agent string iff one of its stored agent  *)
(* tokens is the literal "*" or the lower-cased part of the string before  *)
(* its first '/' contains one of the stored tokens as a substring; the     *)
(* stored tokens are lower-cased, so matching is case-insensitive on both  *)
(* sides and a declared agent bot matches ExampleBot/2.0.                  *)
(***************************************************************************)
C8_AgentMatching ==
    \A g \in Groups :
        /\ \A k \in 1..Len(g.useragents) :
              g.useragents[k] = to_lowercase(g.useragents[k])
        /\ \A ua \in Agents(family) :
              Entry_applies_to(g, ua)
                 <=> \E k \in 1..Len(g.useragents) :
                        \/ g.useragents[k] = <<"*">>
                        \/ IsSubstring(g.useragents[k], to_lowercase(BeforeSlash(ua)))

\* a group declared with User-agent: Bot holds the token bot and governed
\* the query of ExampleBot/2.0
C8_Witness ==
    /\ last.op = "can_fetch"
    /\ last.useragent = A_ExampleBot
    /\ \E k \in 1..Len(this.entries) :
          /\ this.entries[k].useragents = <<A_bot>>
          /\ Entry_applies_to(this.entries[k], last.useragent)
          /\ ~Entry_applies_to(this.entries[k], A_zed)

(***************************************************************************)
(* C9: parse is total.  For every input text, malformed lines, lines       *)
(* without ':', unknown directives and unparsable values included, the     *)
(* line loop consumes every line, reaches its end and returns a Ruleset    *)
(* without entering an error state.                                        *)
(***************************************************************************)
C9_ParseTotal == <>(pc = "done" /\ i = len)

\* parse returned after lines whose values do not parse: a Request-rate and
\* a Sitemap line that left their fields unset
C9_Witness ==
    /\ pc = "done"
    /\ i = len
    /\ \E k \in 1..Len(blocks) :
          /\ blocks[k].kinds = {"request-rate", "sitemap"}
          /\ blocks[k].entry.req_rate = None
          /\ blocks[k].entry.sitemaps = <<>>

(***************************************************************************)
(* C10: the Ruleset is immutable after parse.  No call of can_fetch,       *)
(* crawl_delay, sitemaps or request_rate, in any order, changes groups,    *)
(* the default group or the two override flags, so the same query on the   *)
(* same Ruleset returns the same result.                                   *)
(***************************************************************************)
C10_ImmutableAfterParse ==
    [][pc = "done" =>
          /\ this' = this
          /\ pc' = "done"
          /\ (/\ last'.op = last.op
              /\ last'.useragent = last.useragent
              /\ last'.url = last.url) => last'.result = last.result]_vars

\* a query was answered from a Ruleset with an explicit group and a default
\* group
C10_Witness ==
    /\ pc = "done"
    /\ last.op # "none"
    /\ Len(this.entries) >= 1
    /\ this.default_entry # Entry_new

\* nothing but whitespace stands before the first '#' of the line, or in the
\* whole line if it has none
IsBlankLine(ln) ==
    \A k \in 1..Len(ln) : (\A j \in 1..k : ln[j] # "#") => ln[k] \in Whitespace

DeclaresStar(g) == \E k \in 1..Len(g.useragents) : g.useragents[k] = <<"*">>

\* the Ruleset after is the Ruleset before with group g committed: appended
\* to groups, or, if g declares "*", stored as the default group unless one
\* is stored already
Commits(before, g, after) ==
    IF DeclaresStar(g)
    THEN /\ after.entries = before.entries
         /\ after.default_entry =
               IF before.default_entry = Entry_new THEN g ELSE before.default_entry
    ELSE /\ after.entries = before.entries \o <<g>>
         /\ after.default_entry = before.default_entry

\* what a blank-line trigger does to the values of the last step
Triggered ==
    CASE step.state = 2 -> /\ Commits(step.this, step.entry, this)
                           /\ entry = Entry_new
                           /\ state = 0
      [] step.state = 1 -> /\ this = step.this
                           /\ entry = Entry_new
                           /\ state = 0
      [] OTHER          -> /\ this = step.this
                           /\ entry = step.entry
                           /\ state = 0

(***************************************************************************)
(* C11, as claimed: every line that is blank after normalization (comment  *)
(* stripped, surrounding whitespace trimmed, so also whitespace-only and   *)
(* comment-only lines) acts as a blank-line trigger: in SAW_RULE it        *)
(* commits the in-progress group, starts a fresh one and returns to START; *)
(* in SAW_AGENT it discards the in-progress group and returns to START; in *)
(* START it changes nothing.                                               *)
(***************************************************************************)
C11_BlankAfterNormalizationTriggers ==
    (step.op = "line" /\ IsBlankLine(step.ln)) => Triggered

(***************************************************************************)
(* C11, amended: only a line that is empty as it stands in the text, with  *)
(* no character at all, acts as a blank-line trigger: in SAW_RULE it       *)
(* commits the in-progress group, starts a fresh one and returns to START; *)
(* in SAW_AGENT it discards the in-progress group and returns to START; in *)
(* START it changes nothing.  A line that is blank only after              *)
(* normalization (whitespace-only or comment-only) is skipped: it changes  *)
(* neither the in-progress group, nor the Ruleset, nor the state.          *)
(***************************************************************************)
C11_EmptyLineTriggers ==
    /\ (step.op = "line" /\ step.ln = <<>>) => Triggered
    /\ (step.op = "line" /\ step.ln # <<>> /\ IsBlankLine(step.ln))
          => /\ this = step.this
             /\ entry = step.entry
             /\ state = step.state

\* a whitespace-only or comment-only line was read in SAW_RULE and the group
\* in progress, with its rule, is still in progress
C11_Witness ==
    /\ step.op = "line"
    /\ step.ln \in {L_blank_ws, L_comment}
    /\ step.state = 2
    /\ state = 2
    /\ entry.rulelines # <<>>
    /\ this.entries = <<>>

(***************************************************************************)
(* C12: directives out of context are ignored.  A Disallow, Allow,         *)
(* Crawl-delay, Sitemap or Request-rate line processed while the state is  *)
(* START leaves the in-progress group, the Ruleset and the state (still    *)
(* START) unchanged, so rules that precede the first User-agent line, or   *)
(* that follow a blank line without a new User-agent line, affect no       *)
(* query: a text without any User-agent line gives the empty Ruleset, and  *)
(* can_fetch allows everything.                                            *)
(***************************************************************************)
C12_DirectivesInStartIgnored ==
    /\ (step.op = "line" /\ step.state = 0 /\ LineKind(step.ln) \in DirectiveKinds)
          => /\ this = step.this
             /\ entry = step.entry
             /\ state = 0
    /\ (pc = "done" /\ blocks = <<>>)
          => /\ this.entries = <<>>
             /\ this.default_entry = Entry_new
             /\ last.op = "can_fetch" => last.result = TRUE
             /\ last.op \in {"crawl_delay", "sitemaps", "request_rate"}
                   => last.result = None

\* a directive line was read in START after a block had ended at an empty
\* line, with no User-agent line in between
C12_Witness ==
    /\ step.op = "line"
    /\ step.state = 0
    /\ LineKind(step.ln) \in DirectiveKinds
    /\ Len(blocks) >= 1
    /\ blocks[Len(blocks)].endedBy = "blank"
    /\ ~cur.open
    /\ state = 0

\* the agent token of a User-agent line: the text after the first ':' up to
\* the comment, trimmed, percent-decoded and lower-cased
AgentToken(ln) ==
    to_lowercase(decode_or_empty(trim(splitn2(normalize(ln), ":")[2])))

\* group g holds these agents and nothing else
HoldsOnly(g, agents) ==
    /\ g.useragents = agents
    /\ g.rulelines = <<>>
    /\ g.crawl_delay = None
    /\ g.sitemaps = <<>>
    /\ g.req_rate = None

(***************************************************************************)
(* C13: a User-agent line seen in SAW_RULE first commits the in-progress   *)
(* group and starts a new group holding only the new agent; a User-agent   *)
(* line seen in SAW_AGENT appends to the same group (consecutive           *)
(* User-agent lines share one group and its rules); in all cases the state *)
(* becomes SAW_AGENT, and the explicit groups appear in groups in the      *)
(* order in which their blocks were committed in the text.                 *)
(***************************************************************************)
C13_UserAgentLine ==
    /\ (step.op = "line" /\ LineKind(step.ln) = "user-agent")
          => /\ state = 1
             /\ step.state = 2
                   => /\ Commits(step.this, step.entry, this)
                      /\ HoldsOnly(entry, <<AgentToken(step.ln)>>)
             /\ step.state = 1
                   => /\ this = step.this
                      /\ entry = [step.entry EXCEPT
                                     !.useragents = @ \o <<AgentToken(step.ln)>>]
             /\ step.state = 0
                   => /\ this = step.this
                      /\ HoldsOnly(entry, <<AgentToken(step.ln)>>)
    /\ \A j, k \in 1..Len(this.entries) :
          j < k => this.entries[j].blk < this.entries[k].blk
    /\ \A j \in 1..Len(this.entries) :
          /\ this.entries[j].blk \in 1..Len(blocks) + 1
          /\ this.entries[j].blk <= Len(blocks)
                => this.entries[j] = blocks[this.entries[j].blk].entry

\* a User-agent line was read in SAW_RULE: the group in progress, with two
\* agents from consecutive User-agent lines and a rule, went to groups, and
\* the new group holds the new agent only
C13_Witness ==
    /\ step.op = "line"
    /\ LineKind(step.ln) = "user-agent"
    /\ step.state = 2
    /\ Len(step.entry.useragents) = 2
    /\ step.entry.rulelines # <<>>
    /\ this.entries = <<step.entry>>
    /\ HoldsOnly(entry, <<AgentToken(step.ln)>>)
    /\ state = 1

(***************************************************************************)
(* C14: at end of input the in-progress group is committed iff the final   *)
(* state is SAW_RULE: a last block with at least one directive after its   *)
(* User-agent line is committed without needing a trailing blank line, and *)
(* a last block still in SAW_AGENT (User-agent lines only) is dropped.     *)
(***************************************************************************)
C14_EndOfInput ==
    step.op = "end"
        => /\ step.state = 2 => Commits(step.this, step.entry, this)
           /\ step.state # 2 => this = step.this
           /\ \A k \in 1..Len(blocks) :
                 blocks[k].endedBy = "eof"
                    => /\ blocks[k].entry = step.entry
                       /\ blocks[k].kinds # {} <=> step.state = 2
                       /\ blocks[k].kinds = {} <=> step.state = 1
                       /\ blocks[k].kinds = {} => ~InRuleset(k)
                       /\ IsExplicitBlock(blocks[k])
                             => this.entries[Len(this.entries)] = blocks[k].entry

\* the text ended in SAW_RULE without a trailing empty line and its last
\* block is the last of groups
C14_Witness ==
    /\ step.op = "end"
    /\ step.state = 2
    /\ step.this.entries # this.entries
    /\ blocks[Len(blocks)].endedBy = "eof"
    /\ this.entries[Len(this.entries)] = blocks[Len(blocks)].entry

\* the value of a directive line: the text after the first ':' up to the
\* comment, trimmed and percent-decoded
Value(ln) == decode_or_empty(trim(splitn2(normalize(ln), ":")[2]))

\* the line is a Crawl-delay, Sitemap or Request-rate line whose value
\* cannot be parsed: not a number, not an absolute url, not two unsigned
\* integers around one '/'
Unparsable(ln) ==
    CASE LineKind(ln) = "crawl-delay"  -> ~parse_f64(Value(ln)).ok
      [] LineKind(ln) = "sitemap"      -> ~url_parse(Value(ln)).ok
      [] LineKind(ln) = "request-rate" ->
            LET parts == split(Value(ln), "/")
            IN  ~(Len(parts) = 2 /\ \A k \in 1..2 : parse_usize(parts[k]).ok)
      [] OTHER -> FALSE

(***************************************************************************)
(* C15: a Crawl-delay, Request-rate or Sitemap line (state other than      *)
(* START) whose value cannot be parsed does not set that field of the      *)
(* in-progress group (the field stays as it was, unset if no earlier line  *)
(* of the block set it; the sitemap list is not extended), changes no      *)
(* other field of the group, raises no error, and still advances the state *)
(* to SAW_RULE.  Request-rate: 20/60 stores requests 20 and seconds 60,    *)
(* Request-rate: 20/sixty leaves the field unset.                          *)
(***************************************************************************)
C15_UnparsableValue ==
    /\ (step.op = "line" /\ step.state # 0
            /\ (step.ln \in {L_delay_bad, L_sitemap_bad, L_rate_bad}
                   \/ Unparsable(step.ln)))
          => /\ entry = step.entry
             /\ this = step.this
             /\ state = 2
             /\ pc = "parse"
    /\ (step.op = "line" /\ step.state # 0 /\ step.ln = L_rate_ok)
          => /\ entry = [step.entry EXCEPT
                            !.req_rate = Some([requests |-> 20, seconds |-> 60])]
             /\ state = 2
    /\ (step.op = "line" /\ step.state # 0 /\ step.ln = L_rate_bad
            /\ step.entry.req_rate = None)
          => entry.req_rate = None

\* Request-rate: 20/sixty was read in SAW_AGENT: the rate is unset, the
\* group is as it was and the state is SAW_RULE
C15_Witness ==
    /\ step.op = "line"
    /\ step.ln = L_rate_bad
    /\ step.state = 1
    /\ entry = step.entry
    /\ entry.req_rate = None
    /\ state = 2
    /\ pc = "parse"

\* what the Ruleset answers for a path that is already normalized: the first
\* applying explicit group decides, then the default group, then true
Judged(useragent, path) ==
    IF Applying(useragent) # {}
    THEN FirstMatch(this.entries[MinOf(Applying(useragent))], path)
    ELSE IF this.default_entry # Entry_new
         THEN FirstMatch(this.default_entry, path)
         ELSE TRUE

\* the url holds nothing but whitespace once it is percent-decoded (a url
\* whose decoding fails counts as decoded to the empty string)
EmptyAfterDecodeAndTrim(url) ==
    \A k \in 1..Len(decode_or_empty(url)) : decode_or_empty(url)[k] \in Whitespace

(***************************************************************************)
(* C16, as claimed: can_fetch normalizes the url before matching by        *)
(* percent-decoding it and then trimming surrounding whitespace, and       *)
(* substitutes "/" when the result is empty (including when decoding       *)
(* fails); so every url that is empty after decoding and trimming (the     *)
(* empty url, two spaces, %20) is judged exactly like "/".                 *)
(***************************************************************************)
C16_DecodeThenTrim ==
    (last.op = "can_fetch" /\ EmptyAfterDecodeAndTrim(last.url))
        => last.result = Judged(last.useragent, <<"/">>)

(***************************************************************************)
(* C16, amended: can_fetch normalizes the url before matching by trimming  *)
(* surrounding whitespace and then percent-decoding it, and substitutes    *)
(* "/" when the result is empty (including when decoding fails); so every  *)
(* url that is empty after trimming (the empty url, two spaces) or whose   *)
(* decoding fails (%FF) is judged exactly like "/", while a url that       *)
(* decodes to whitespace (%20, decoded to one space) is matched as that    *)
(* path and not as "/".                                                    *)
(***************************************************************************)
C16_TrimThenDecode ==
    last.op = "can_fetch"
        => LET decoded == decode_or_empty(trim(last.url))
           IN  /\ last.result =
                     Judged(last.useragent,
                            IF decoded = <<>> THEN <<"/">> ELSE decoded)
               /\ last.url \in {U_empty, U_ws, U_pctFF}
                     => last.result = Judged(last.useragent, <<"/">>)
               /\ last.url = U_pct20
                     => last.result = Judged(last.useragent, <<" ">>)

\* the Ruleset refuses "/" to the agent, and the agent asked about %20 and
\* was allowed
C16_Witness ==
    /\ last.op = "can_fetch"
    /\ last.url = U_pct20
    /\ last.result = TRUE
    /\ ~Judged(last.useragent, <<"/">>)

(***************************************************************************)
(* C17: after parsing any text, no group in the groups sequence declares   *)
(* the agent "*", the default group is either completely empty or declares *)
(* "*", and no committed block is held both in groups and in the default   *)
(* slot.                                                                   *)
(***************************************************************************)
C17_GroupsExcludeStar ==
    /\ \A k \in 1..Len(this.entries) : ~DeclaresStar(this.entries[k])
    /\ this.default_entry = Entry_new \/ DeclaresStar(this.default_entry)
    /\ \A k \in 1..Len(this.entries) :
          /\ this.entries[k] # this.default_entry
          /\ this.entries[k].blk # this.default_entry.blk
    /\ \A k \in 1..Len(blocks) :
          Cardinality({j \in 1..Len(this.entries) : this.entries[j].blk = k}
                         \cup (IF this.default_entry.blk = k THEN {0} ELSE {})) <= 1

\* parse returned a Ruleset with an explicit group in groups and a block of
\* "*" with a rule in the default slot
C17_Witness ==
    /\ pc = "done"
    /\ step.op = "end"
    /\ this.entries # <<>>
    /\ DeclaresStar(this.default_entry)
    /\ this.default_entry.rulelines # <<>>

\* the value is a decimal number without a minus sign: digits with at most
\* one point among them, after an optional plus sign
NonNegativeDecimal(v) ==
    LET b    == IF v # <<>> /\ v[1] = "+" THEN Tail(v) ELSE v
        dots == {k \in 1..Len(b) : b[k] = "."}
    IN  /\ Cardinality(dots) <= 1
        /\ Len(b) > Cardinality(dots)
        /\ \A k \in (1..Len(b)) \ dots : b[k] \in DigitSet

\* the integer part of such a value
IntegerPart(v) ==
    LET b == IF v # <<>> /\ v[1] = "+" THEN Tail(v) ELSE v
    IN  DecimalValue(IF find(b, ".") = 0 THEN b ELSE SubSeq(b, 1, find(b, ".") - 1))

(***************************************************************************)
(* C18, as claimed: a Crawl-delay line (state other than START) sets the   *)
(* delay of the group only when its value is a non-negative decimal number *)
(* of seconds, and then the whole seconds of the stored duration equal the *)
(* integer part of the value; a value that is negative or not a number     *)
(* leaves the delay as it was, unset if no earlier line set it.            *)
(***************************************************************************)
C18_NonNegativeDelayOnly ==
    (step.op = "line" /\ step.state # 0 /\ LineKind(step.ln) = "crawl-delay")
        => IF NonNegativeDecimal(Value(step.ln))
           THEN /\ entry.crawl_delay # None
                /\ entry.crawl_delay[1].secs = IntegerPart(Value(step.ln))
           ELSE entry.crawl_delay = step.entry.crawl_delay

\* Crawl-delay: -1.5 was read in a block without a delay, and the group now
\* holds a delay of zero seconds
C18_Witness ==
    /\ step.op = "line"
    /\ step.ln = L_delay_neg
    /\ step.state # 0
    /\ step.entry.crawl_delay = None
    /\ entry.crawl_delay = Some([secs |-> 0, nanos |-> 0])

(***************************************************************************)
(* C19: an invariant of the parse loop, holding after every processed line *)
(* of any input.  state = START iff the in-progress group is entirely      *)
(* empty (no agents, rules, delay, sitemaps or rate); state = SAW_AGENT    *)
(* implies the in-progress group has at least one agent and no rule or     *)
(* auxiliary field; state = SAW_RULE implies it has at least one agent.    *)
(* Hence every group ever committed, in groups or as the default, has at   *)
(* least one agent token, and the default slot is non-empty exactly when a *)
(* block of "*" was committed.                                             *)
(***************************************************************************)
C19_LoopInvariant ==
    /\ state \in {0, 1, 2}
    /\ state = 0 <=> HoldsOnly(entry, <<>>)
    /\ state = 1 => entry.useragents # <<>> /\ HoldsOnly(entry, entry.useragents)
    /\ state = 2 => entry.useragents # <<>>
    /\ \A k \in 1..Len(this.entries) : this.entries[k].useragents # <<>>
    /\ this.default_entry # Entry_new => this.default_entry.useragents # <<>>
    /\ ~is_empty(this.default_entry) <=> this.default_entry # Entry_new
    /\ this.default_entry # Entry_new <=> StarWithDirective # {}

\* a block of "*" was committed to the default slot at the User-agent line
\* of the next block, and that block was discarded at an empty line: the
\* state is START and the group in progress is empty
C19_Witness ==
    /\ step.op = "line"
    /\ step.ln = <<>>
    /\ step.state = 1
    /\ step.entry.useragents # <<>>
    /\ state = 0
    /\ entry = Entry_new
    /\ this.default_entry # Entry_new

\* the agent tokens, as they are written, of the User-agent lines that a
\* text of the family can have
WrittenAgents == {Value(ln) : ln \in {l \in Pool(family) : LineKind(l) = "user-agent"}}

(***************************************************************************)
(* C20, as claimed: agent matching is reflexive.  For every agent token A  *)
(* declared on a User-agent line of a committed explicit group, that group *)
(* applies to the user-agent string A itself (a crawler that identifies    *)
(* itself with exactly the declared name is governed by that block), for   *)
(* all A, including tokens that contain '/', upper-case letters, or are    *)
(* empty.                                                                  *)
(***************************************************************************)
C20_DeclaredAgentMatchesItself ==
    \A k \in 1..Len(this.entries) : \A A \in WrittenAgents :
        has_useragent(this.entries[k], to_lowercase(A))
            => Entry_applies_to(this.entries[k], A)

\* the only group is the block declared with User-agent: Foo/1.0 and it
\* disallows "/", yet can_fetch allowed "/" to the crawler Foo/1.0
C20_Witness ==
    /\ pc = "done"
    /\ Len(this.entries) = 1
    /\ this.entries[1].useragents = <<to_lowercase(A_Foo_slash)>>
    /\ this.entries[1].rulelines = <<Rule(<<"/">>, FALSE)>>
    /\ this.default_entry = Entry_new
    /\ last.op = "can_fetch"
    /\ last.useragent = A_Foo_slash
    /\ last.url = U_root
    /\ last.result = TRUE

====
